---- MODULE Spec2Model ----
(***************************************************************************)
(* ColonoMind automated testing system.                                    *)
(*                                                                         *)
(* run_tests.py (main / run_tests) is modelled as a sequential program     *)
(* with a program counter; results_analyzer.py (ResultsAnalyzer) as        *)
(* operators over the list self.results; colonoscopy_tester.py and         *)
(* test_dataset_manager.py through the calls run_tests makes to them.      *)
(* Floats that are ratios are kept exact as [num, den] records; python's   *)
(* None is the integer None.                                               *)
(***************************************************************************)
EXTENDS Integers, Sequences, FiniteSets, TLC

\* ---------------------------------------------------------------- bounds
MaxImages == 2      \* most image files in the dataset directory
MaxBatch == 2       \* largest --batch-size tried (0 .. MaxBatch)
MaxTime == 1        \* largest elapsed time of one trial, in seconds
MaxLimit == 1       \* largest --start-index and --max-images tried
MaxClass == 1       \* largest class a run's dataset holds and its webapp predicts
MaxResults == 3     \* most add_result calls when the analyzer is driven alone
MaxElapsed == 2     \* largest processing_time when the timing statistics are driven alone
MaxTimed == 3       \* most add_result calls when the timing statistics are driven alone
MaxEntries == 2     \* most entries of one class directory when the loader is driven alone
MaxPhrases == 2     \* most result phrases on the webapp page when the tester is driven alone
MaxPollPhrases == 1 \* most result phrases on the page a poll of wait_for_processing sees
MaxTimeout == 2     \* largest timeout, in seconds, given to wait_for_processing
MaxQuits == 2       \* most driver.quit() calls when the tester is driven alone

\* ------------------------------------------------------ program constants
MES_CLASSES == 0 .. 3
None == 0 - 1
SAVE_SCREENSHOTS_ON_ERROR == TRUE
SUPPORTED_EXTENSIONS == {".jpg", ".jpeg", ".png", ".JPG", ".JPEG", ".PNG"}
DETAILED_RESULTS_FILE == "results_detailed.csv"
SUMMARY_FILE == "results_summary.json"
CONFUSION_MATRIX_FILE == "confusion_matrix.png"
REPORT_FILE == "REPORT.md"
FinalArtifacts == {DETAILED_RESULTS_FILE, SUMMARY_FILE, CONFUSION_MATRIX_FILE, REPORT_FILE}

VARIABLES
    pc,               \* position in main() / run_tests()
    args,             \* parsed command line: batch_size, start_index, max_images
    images,           \* the list `images` of run_tests: (image_path, ground_truth)
    idx,              \* loop index of `for idx, ... in enumerate(images)`, 0-based
    exc,              \* str(e) of the exception in flight inside the try block
    results,          \* ResultsAnalyzer.results
    failed_count,
    processed_count,
    driver,           \* ColonoMindTester.driver: "none", "live", "quit"
    analyzer,         \* TRUE once ResultsAnalyzer(args.output) was constructed
    files,            \* names of the files written under args.output
    flushes,          \* intermediate flushes so far: [tag, after, rows]
    dispatched,       \* idx of every item handed to test_single_image, in order
    raised,           \* idx of every item whose try block raised an Exception
    cancelled,        \* "no", "caught" (except KeyboardInterrupt), "uncaught"
    interrupted_at,   \* the position a KeyboardInterrupt arrived at, "" if none
    cause,            \* why run_tests returned False or raised
    exit_status,      \* argument of sys.exit, None while running
    resets,           \* idx of every item reset_for_next_image() was called after
    quit_calls,       \* number of driver.quit() calls issued so far
    page,             \* the phrases the webapp page shows, in document order
    call,             \* the tester method called last: its inputs and its return
    except_body,      \* how lines 198-200 of colonoscopy_tester.py are completed
    tree              \* the entries under base_dir, None if base_dir is missing

vars == <<pc, args, images, idx, exc, results, failed_count, processed_count,
          driver, analyzer, files, flushes, dispatched, raised, cancelled,
          interrupted_at, cause, exit_status,
         resets, quit_calls, page, call, except_body, tree>>

\* ------------------------------------------------------------ ResultsAnalyzer

\* ResultsAnalyzer.add_result: the row appended to self.results
AddResult(rs, image_path, ground_truth, predicted, processing_time, success, error_msg) ==
    Append(rs, [image_path |-> image_path,
                ground_truth |-> ground_truth,
                predicted |-> predicted,
                processing_time |-> processing_time,
                success |-> success,
                correct |-> IF predicted # None THEN predicted = ground_truth ELSE FALSE,
                error |-> error_msg])

\* an exact ratio: python floats that are quotients of two counts
Frac(n, d) == [num |-> n, den |-> d]

\* the literal 0.0
Zero == Frac(0, 1)

\* len([r for r in rs if Test(r)])
CountIf(rs, Test(_)) == Len(SelectSeq(rs, Test))

\* the filter of calculate_accuracy_metrics and generate_confusion_matrix
SuccessfulResults(rs) == SelectSeq(rs, LAMBDA r : r.success /\ r.predicted # None)

\* sklearn.metrics.accuracy_score(y_true, y_pred): fraction of equal pairs
AccuracyScore(succ) ==
    Frac(CountIf(succ, LAMBDA r : r.ground_truth = r.predicted), Len(succ))

\* PerClassAccuracy with the class filter on the predicted class instead of
\* the ground truth
PerClassPrecision(succ, mes_class) ==
    LET class_results == SelectSeq(succ, LAMBDA r : r.predicted = mes_class)
    IN  IF Len(class_results) > 0
        THEN Frac(CountIf(class_results, LAMBDA r : r.correct), Len(class_results))
        ELSE Zero

\* the per-class loop of calculate_accuracy_metrics
PerClassAccuracy(succ, mes_class) ==
    LET class_results == SelectSeq(succ, LAMBDA r : r.ground_truth = mes_class)
    IN  IF Len(class_results) > 0
        THEN Frac(CountIf(class_results, LAMBDA r : r.correct), Len(class_results))
        ELSE Zero

\* CalculateAccuracyMetrics without the `if not successful_results` return:
\* the ratios are taken over an empty list
CalculateAccuracyMetricsUnguarded(rs) ==
    LET successful_results == SuccessfulResults(rs)
    IN  [overall_accuracy |-> AccuracyScore(successful_results),
         total_tested |-> Len(rs),
         successful_tests |-> Len(successful_results),
         failed_tests |-> Len(rs) - Len(successful_results),
         per_class |-> [c \in MES_CLASSES |-> PerClassAccuracy(successful_results, c)]]

\* ResultsAnalyzer.calculate_accuracy_metrics; per_class holds the
\* MES_<c>_accuracy keys, which the early return leaves out
CalculateAccuracyMetrics(rs) ==
    LET successful_results == SuccessfulResults(rs)
    IN  IF Len(successful_results) = 0
        THEN [overall_accuracy |-> Zero,
              total_tested |-> Len(rs),
              successful_tests |-> 0,
              failed_tests |-> Len(rs),
              per_class |-> [c \in {} |-> Zero]]
        ELSE [overall_accuracy |-> AccuracyScore(successful_results),
              total_tested |-> Len(rs),
              successful_tests |-> Len(successful_results),
              failed_tests |-> Len(rs) - Len(successful_results),
              per_class |-> [c \in MES_CLASSES |-> PerClassAccuracy(successful_results, c)]]

\* a file under args.output: name, and the count or index in its name
\* sum(ts) of a list of numbers
RECURSIVE SumSeq(_)
SumSeq(ts) == IF ts = << >> THEN 0 ELSE ts[1] + SumSeq(Tail(ts))

\* [r['processing_time'] for r in rs]
ProcessingTimes(rs) == [i \in 1 .. Len(rs) |-> rs[i].processing_time]

\* the filter of calculate_timing_statistics: the success flag alone
SuccessfulTimes(rs) == ProcessingTimes(SelectSeq(rs, LAMBDA r : r.success))

\* np.min, np.max, np.mean of a non-empty list
NpMin(ts) == CHOOSE v \in {ts[i] : i \in 1 .. Len(ts)} : \A i \in 1 .. Len(ts) : v <= ts[i]
NpMax(ts) == CHOOSE v \in {ts[i] : i \in 1 .. Len(ts)} : \A i \in 1 .. Len(ts) : v >= ts[i]
NpMean(ts) == Frac(SumSeq(ts), Len(ts))

\* the k-th element of sorted(ts)
KthSmallest(ts, k) ==
    CHOOSE v \in {ts[i] : i \in 1 .. Len(ts)} :
        /\ Cardinality({i \in 1 .. Len(ts) : ts[i] < v}) < k
        /\ Cardinality({i \in 1 .. Len(ts) : ts[i] <= v}) >= k

\* np.median of a non-empty list: the middle element, or the mean of the
\* two middle elements
NpMedian(ts) ==
    LET n == Len(ts)
    IN  IF n % 2 = 1 THEN Frac(KthSmallest(ts, (n + 1) \div 2), 1)
        ELSE Frac(KthSmallest(ts, n \div 2) + KthSmallest(ts, n \div 2 + 1), 2)

\* calculate_timing_statistics with the statistics taken over every row
CalculateTimingStatisticsAllRows(rs) ==
    LET times == ProcessingTimes(rs)
    IN  IF times = << >>
        THEN [mean_time |-> Zero, median_time |-> Zero, min_time |-> 0, max_time |-> 0,
              total_time |-> SumSeq(ProcessingTimes(rs))]
        ELSE [mean_time |-> NpMean(times), median_time |-> NpMedian(times),
              min_time |-> NpMin(times), max_time |-> NpMax(times),
              total_time |-> SumSeq(ProcessingTimes(rs))]

\* ResultsAnalyzer.calculate_timing_statistics; std_time, a square root, is
\* left out of the record (it is 0.0 on the early return)
CalculateTimingStatistics(rs) ==
    LET successful_times == SuccessfulTimes(rs)
    IN  IF successful_times = << >>
        THEN [mean_time |-> Zero, median_time |-> Zero, min_time |-> 0, max_time |-> 0,
              total_time |-> SumSeq(ProcessingTimes(rs))]
        ELSE [mean_time |-> NpMean(successful_times),
              median_time |-> NpMedian(successful_times),
              min_time |-> NpMin(successful_times),
              max_time |-> NpMax(successful_times),
              total_time |-> SumSeq(ProcessingTimes(rs))]

File(name, tag) == [name |-> name, tag |-> tag]

\* ResultsAnalyzer.save_detailed_results(filename): df.to_csv writes the file
\* or raises
SaveDetailedResults(fs, name, tag, ok) == IF ok THEN fs \cup {File(name, tag)} ELSE fs

\* ResultsAnalyzer.save_summary
SaveSummary(fs, ok) == IF ok THEN fs \cup {File(SUMMARY_FILE, None)} ELSE fs

\* ResultsAnalyzer.generate_confusion_matrix: returns None, writing nothing,
\* when there is no successful result
GenerateConfusionMatrix(fs, rs, ok) ==
    IF Len(SuccessfulResults(rs)) = 0 THEN fs
    ELSE IF ok THEN fs \cup {File(CONFUSION_MATRIX_FILE, None)} ELSE fs

\* ResultsAnalyzer.generate_report
GenerateReport(fs, ok) == IF ok THEN fs \cup {File(REPORT_FILE, None)} ELSE fs

\* ------------------------------------------------------------ TestDatasetManager

\* the (str(img_path), class_label) tuples load_dataset appends for one class
\* directory holding n image files; paths are numbered from `first`
ClassImages(class_label, n, first) ==
    [i \in 1 .. n |-> [image_path |-> first + i - 1, ground_truth |-> class_label]]

\* TestDatasetManager.load_dataset on an existing base_dir whose class
\* directory c holds counts[c] supported image files: classes in the order
\* 0, 1, 2, 3
LoadDataset(counts) ==
    LET c0 == ClassImages(0, counts[0], 1)
        c1 == ClassImages(1, counts[1], 1 + counts[0])
        c2 == ClassImages(2, counts[2], 1 + counts[0] + counts[1])
        c3 == ClassImages(3, counts[3], 1 + counts[0] + counts[1] + counts[2])
    IN  c0 \o c1 \o c2 \o c3

\* the dataset directories tried: at most MaxImages image files in all
DatasetCounts ==
    {counts \in [MES_CLASSES -> 0 .. MaxImages] :
        /\ counts[0] + counts[1] + counts[2] + counts[3] <= MaxImages
        /\ \A c \in MES_CLASSES : c > MaxClass => counts[c] = 0}

\* python's lst[start:]
SliceFrom(lst, start) == SubSeq(lst, start + 1, Len(lst))

\* python's lst[:stop] for stop >= 0
SliceTo(lst, stop) == SubSeq(lst, 1, IF stop < Len(lst) THEN stop ELSE Len(lst))

\* run_tests, "Apply limits if specified"
ApplyLimits(lst, a) ==
    LET from == IF a.start_index > 0 THEN SliceFrom(lst, a.start_index) ELSE lst
    IN  IF a.max_images # None /\ a.max_images # 0
        THEN SliceTo(from, a.max_images) ELSE from

\* ------------------------------------------------------------ ColonoMindTester

\* ColonoMindTester.test_single_image(image_path) -> (predicted, time, success):
\* upload, then wait for the result, then extract the classification
TestSingleImage(upload_ok, await_ok, extracted, elapsed) ==
    [predicted |-> extracted, processing_time |-> elapsed,
     success |-> upload_ok /\ await_ok]

\* ColonoMindTester.save_screenshot(path): best effort, never raises
SaveScreenshot(fs, i) == fs \cup {File("error.png", i)}

\* ColonoMindTester.cleanup: quits the driver if there is one
Cleanup(d) == IF d # "none" THEN "quit" ELSE d

\* the number of driver.quit() calls one cleanup() issues: `if self.driver:`
\* is true of every handle setup_driver assigned, cleanup never clears it
CleanupQuits(d) == IF d # "none" THEN 1 ELSE 0

\* no tester method was called yet
NoCall == [method |-> "none"]

\* ------------------------------------------------------------ run_tests / main

BatchSizes == 0 .. MaxBatch
TrialTimes == 1 .. MaxTime
Predictions == MES_CLASSES \cup {None}
RunPredictions == {p \in Predictions : p <= MaxClass}

\* the statements inside the loop's try block
TryPcs == {"trial", "count", "flush"}

Init ==
    /\ pc = "load"
    /\ args \in [batch_size : BatchSizes,
                 start_index : 0 .. MaxLimit,
                 max_images : {None} \cup (0 .. MaxLimit)]
    /\ images = << >>
    /\ idx = 0
    /\ exc = ""
    /\ results = << >>
    /\ failed_count = 0
    /\ processed_count = 0
    /\ driver = "none"
    /\ analyzer = FALSE
    /\ files = {}
    /\ flushes = << >>
    /\ dispatched = << >>
    /\ raised = {}
    /\ cancelled = "no"
    /\ interrupted_at = ""
    /\ cause = ""
    /\ exit_status = None
    /\ resets = << >>
    /\ quit_calls = 0
    /\ page = << >>
    /\ call = NoCall
    /\ except_body = "pass"
    /\ tree = None

\* ReturnFalse with the `return False` forgotten: the error is logged and
\* run_tests goes on to set up result tracking
ReturnFalseLoggedOnly(why) ==
    /\ pc' = "tracking"
    /\ exit_status' = exit_status
    /\ cause' = why

\* run_tests returns False and main calls sys.exit(1)
ReturnFalse(why) ==
    /\ pc' = "exited"
    /\ exit_status' = 1
    /\ cause' = why

\* the for loop moves to its next item, or ends
LoopNext(i, lst) == IF i < Len(lst) THEN "trial" ELSE "report"

\* Step 1: load_dataset raises (base_dir missing), returns no image, or
\* returns the images
Load ==
    /\ pc = "load"
    /\ \/ /\ ReturnFalse("dataset_missing")
          /\ UNCHANGED images
       \/ \E counts \in DatasetCounts :
            /\ images' = LoadDataset(counts)
            /\ IF images' = << >>
               THEN ReturnFalse("dataset_empty")
               ELSE /\ pc' = "validate"
                    /\ UNCHANGED <<exit_status, cause>>
    /\ UNCHANGED <<interrupted_at, args, idx, exc, results, failed_count, processed_count, driver,
                   analyzer, files, flushes, dispatched, raised, cancelled>>
    /\ UNCHANGED <<resets, quit_calls, page, call, except_body, tree>>

\* validate_dataset (every path still exists, or not), then the two slices
Validate ==
    /\ pc = "validate"
    /\ \E all_valid \in BOOLEAN :
         IF all_valid
         THEN /\ images' = ApplyLimits(images, args)
              /\ pc' = "setup_driver"
              /\ UNCHANGED <<exit_status, cause>>
         ELSE /\ ReturnFalse("dataset_invalid")
              /\ UNCHANGED images
    /\ UNCHANGED <<interrupted_at, args, idx, exc, results, failed_count, processed_count, driver,
                   analyzer, files, flushes, dispatched, raised, cancelled>>
    /\ UNCHANGED <<resets, quit_calls, page, call, except_body, tree>>

\* Step 2, tester.setup_driver(): webdriver.Chrome gives a session or raises
SetupDriver ==
    /\ pc = "setup_driver"
    /\ \E ok \in BOOLEAN :
         IF ok
         THEN /\ driver' = "live"
              /\ pc' = "navigate"
              /\ UNCHANGED <<exit_status, cause>>
         ELSE /\ ReturnFalse("driver_failed")
              /\ UNCHANGED driver
    /\ UNCHANGED <<interrupted_at, args, images, idx, exc, results, failed_count, processed_count,
                   analyzer, files, flushes, dispatched, raised, cancelled>>
    /\ UNCHANGED <<resets, quit_calls, page, call, except_body, tree>>

\* Step 2, tester.navigate_to_webapp(): driver.get loads the page or raises;
\* the except clause returns False
Navigate ==
    /\ pc = "navigate"
    /\ \E ok \in BOOLEAN :
         IF ok
         THEN /\ pc' = "tracking"
              /\ UNCHANGED <<exit_status, cause>>
         ELSE ReturnFalse("navigate_failed")
    /\ UNCHANGED <<interrupted_at, args, images, idx, exc, results, failed_count, processed_count,
                   driver, analyzer, files, flushes, dispatched, raised, cancelled>>
    /\ UNCHANGED <<resets, quit_calls, page, call, except_body, tree>>

\* Step 3: ensure_output_dir() and ResultsAnalyzer(args.output); a mkdir that
\* raises leaves run_tests and reaches main's except clause
Tracking ==
    /\ pc = "tracking"
    /\ \E ok \in BOOLEAN :
         IF ok
         THEN /\ analyzer' = TRUE
              /\ pc' = LoopNext(0, images)
              /\ UNCHANGED <<exit_status, cause>>
         ELSE /\ pc' = "exited"
              /\ exit_status' = 1
              /\ cause' = "tracking_failed"
              /\ UNCHANGED analyzer
    /\ UNCHANGED <<interrupted_at, args, images, idx, exc, results, failed_count, processed_count,
                   driver, files, flushes, dispatched, raised, cancelled>>
    /\ UNCHANGED <<resets, quit_calls, page, call, except_body, tree>>

\* Step 4, lines 162-193: the trial of images[idx], its row in the analyzer,
\* and the screenshot of a failed trial
RunTrial ==
    /\ pc = "trial"
    /\ dispatched' = Append(dispatched, idx)
    /\ LET item == images[idx + 1] IN
       \/ \E upload_ok \in BOOLEAN, await_ok \in BOOLEAN,
             extracted \in RunPredictions, elapsed \in TrialTimes :
            LET t == TestSingleImage(upload_ok, await_ok, extracted, elapsed) IN
            /\ IF t.success
               THEN /\ results' = AddResult(results, item.image_path, item.ground_truth,
                                            t.predicted, t.processing_time, TRUE, "")
                    /\ UNCHANGED <<failed_count, files>>
               ELSE /\ failed_count' = failed_count + 1
                    /\ results' = AddResult(results, item.image_path, item.ground_truth,
                                            None, t.processing_time, FALSE,
                                            "Failed to process image")
                    /\ files' = IF SAVE_SCREENSHOTS_ON_ERROR
                                THEN SaveScreenshot(files, idx) ELSE files
            /\ pc' = "count"
            /\ UNCHANGED <<exc, raised, cancelled, interrupted_at>>
       \/ /\ exc' = "trial error"                      \* except Exception as e
          /\ raised' = raised \cup {idx}
          /\ pc' = "handler"
          /\ UNCHANGED <<results, failed_count, files, cancelled, interrupted_at>>
       \/ /\ cancelled' = "caught"                     \* except KeyboardInterrupt
          /\ interrupted_at' = pc
          /\ pc' = "report"
          /\ UNCHANGED <<results, failed_count, files, exc, raised>>
    /\ UNCHANGED <<args, images, idx, processed_count, driver, analyzer, flushes,
                   cause, exit_status>>
    /\ UNCHANGED <<resets, quit_calls, page, call, except_body, tree>>

\* lines 195-199: processed_count += 1, then reset_for_next_image() unless
\* this is the last image; the reset swallows its own exceptions
CountAndReset ==
    /\ pc = "count"
    /\ processed_count' = processed_count + 1
    /\ resets' = IF idx < Len(images) - 1 THEN Append(resets, idx) ELSE resets
    /\ pc' = "flush"
    /\ UNCHANGED <<interrupted_at, args, images, idx, exc, results, failed_count, driver, analyzer,
                   files, flushes, dispatched, raised, cancelled, cause, exit_status>>
    /\ UNCHANGED <<quit_calls, page, call, except_body, tree>>

\* lines 202-204: the intermediate save at batch intervals; the modulo raises
\* ZeroDivisionError for --batch-size 0, and to_csv may raise
Flush ==
    /\ pc = "flush"
    /\ IF args.batch_size = 0
       THEN /\ exc' = "integer modulo by zero"
            /\ raised' = raised \cup {idx}
            /\ pc' = "handler"
            /\ UNCHANGED <<files, flushes>>
       ELSE IF processed_count % args.batch_size = 0
       THEN \E ok \in BOOLEAN :
              IF ok
              THEN /\ files' = SaveDetailedResults(files, "results_intermediate.csv",
                                                   processed_count, TRUE)
                   /\ flushes' = Append(flushes, [tag |-> processed_count,
                                                  after |-> idx,
                                                  rows |-> Len(results)])
                   /\ pc' = "update"
                   /\ UNCHANGED <<exc, raised>>
              ELSE /\ exc' = "flush error"
                   /\ raised' = raised \cup {idx}
                   /\ pc' = "handler"
                   /\ UNCHANGED <<files, flushes>>
       ELSE /\ pc' = "update"
            /\ UNCHANGED <<files, flushes, exc, raised>>
    /\ UNCHANGED <<interrupted_at, args, images, idx, results, failed_count, processed_count, driver,
                   analyzer, dispatched, cancelled, cause, exit_status>>
    /\ UNCHANGED <<resets, quit_calls, page, call, except_body, tree>>

\* lines 209-220: except Exception as e
Handler ==
    /\ pc = "handler"
    /\ LET item == images[idx + 1] IN
       results' = AddResult(results, item.image_path, item.ground_truth,
                            None, 0, FALSE, exc)
    /\ failed_count' = failed_count + 1
    /\ exc' = ""
    /\ pc' = "update"
    /\ UNCHANGED <<interrupted_at, args, images, idx, processed_count, driver, analyzer, files,
                   flushes, dispatched, raised, cancelled, cause, exit_status>>
    /\ UNCHANGED <<resets, quit_calls, page, call, except_body, tree>>

\* line 222, pbar.update(1), and the loop's step to the next item
Update ==
    /\ pc = "update"
    /\ idx' = idx + 1
    /\ pc' = LoopNext(idx + 1, images)
    /\ UNCHANGED <<interrupted_at, args, images, exc, results, failed_count, processed_count, driver,
                   analyzer, files, flushes, dispatched, raised, cancelled, cause,
                   exit_status>>
    /\ UNCHANGED <<resets, quit_calls, page, call, except_body, tree>>

\* a KeyboardInterrupt delivered between two statements of the loop (one
\* delivered during the trial is in RunTrial): inside the try block the loop
\* breaks; in the except clause or at pbar.update it leaves run_tests and
\* main (which catches Exception only), the interpreter ends with status 130
Interrupt ==
    /\ pc \in {"count", "flush", "handler", "update"}
    /\ interrupted_at' = pc
    /\ IF pc \in TryPcs
       THEN /\ cancelled' = "caught"
            /\ pc' = "report"
            /\ UNCHANGED <<exit_status, cause>>
       ELSE /\ cancelled' = "uncaught"
            /\ pc' = "exited"
            /\ exit_status' = 130
            /\ cause' = "interrupt"
    /\ UNCHANGED <<args, images, idx, exc, results, failed_count, processed_count,
                   driver, analyzer, files, flushes, dispatched, raised>>
    /\ UNCHANGED <<resets, quit_calls, page, call, except_body, tree>>

\* the Step 5 try block: the four writes in order; the write numbered
\* failed_at raises and the except clause skips the rest (0: none raises)
GenerateReports(fs, rs, failed_at) ==
    LET runs(k) == failed_at = 0 \/ k <= failed_at
        f1 == IF runs(1)
              THEN SaveDetailedResults(fs, DETAILED_RESULTS_FILE, None, failed_at # 1)
              ELSE fs
        f2 == IF runs(2) THEN SaveSummary(f1, failed_at # 2) ELSE f1
        f3 == IF runs(3) THEN GenerateConfusionMatrix(f2, rs, failed_at # 3) ELSE f2
    IN  IF runs(4) THEN GenerateReport(f3, failed_at # 4) ELSE f3

\* Step 5, lines 224-247: reports on whatever rows the analyzer holds;
\* generate_confusion_matrix cannot raise when it returns early
Report ==
    /\ pc = "report"
    /\ \E failed_at \in 0 .. 4 :
         /\ failed_at = 3 => Len(SuccessfulResults(results)) > 0
         /\ files' = GenerateReports(files, results, failed_at)
         /\ exc' = IF failed_at = 0 THEN exc ELSE "report error"
    /\ pc' = "cleanup"
    /\ UNCHANGED <<args, images, idx, results, failed_count, processed_count, driver,
                   analyzer, flushes, dispatched, raised, cancelled, interrupted_at,
                   cause, exit_status>>
    /\ UNCHANGED <<resets, quit_calls, page, call, except_body, tree>>

\* lines 249-263 and main: tester.cleanup(), then the final summary, whose
\* success rate divides by processed_count; the ZeroDivisionError reaches
\* main's except clause, sys.exit(1); otherwise run_tests returns True,
\* sys.exit(0)
CleanupAndExit ==
    /\ pc = "cleanup"
    /\ driver' = Cleanup(driver)                     \* line 251
    /\ pc' = "exited"
    /\ IF processed_count = 0
       THEN /\ exit_status' = 1
            /\ cause' = "summary_failed"
       ELSE /\ exit_status' = 0
            /\ cause' = "completed"
    /\ UNCHANGED <<args, images, idx, exc, results, failed_count, processed_count,
                   analyzer, files, flushes, dispatched, raised, cancelled,
                   interrupted_at>>
    /\ quit_calls' = quit_calls + CleanupQuits(driver)
    /\ UNCHANGED <<resets, page, call, except_body, tree>>

Next ==
    \/ Load
    \/ Validate
    \/ SetupDriver
    \/ Navigate
    \/ Tracking
    \/ RunTrial
    \/ CountAndReset
    \/ Flush
    \/ Handler
    \/ Update
    \/ Interrupt
    \/ Report
    \/ CleanupAndExit

Spec == Init /\ [][Next]_vars

TypeOK ==
    /\ pc \in {"load", "validate", "setup_driver", "navigate", "tracking", "trial",
               "count", "flush", "handler", "update", "report", "cleanup", "exited",
               "analyzer", "load_dataset", "class_loop", "loaded", "load_raised",
               "tester"}
    /\ idx \in 0 .. MaxImages
    /\ Len(results) <= 2 * MaxImages + MaxResults
    /\ driver \in {"none", "live", "quit"}
    /\ exit_status \in {None, 0, 1, 130}

\* ------------------------------------------------- the analyzer driven alone
\* (as verify_system.test_results_analyzer does): add_result with any
\* arguments, the metrics computed on whatever list results

InitAnalyzer ==
    /\ pc = "analyzer"
    /\ args = [batch_size |-> 1, start_index |-> 0, max_images |-> None]
    /\ images = << >>
    /\ idx = 0
    /\ exc = ""
    /\ results = << >>
    /\ failed_count = 0
    /\ processed_count = 0
    /\ driver = "none"
    /\ analyzer = TRUE
    /\ files = {}
    /\ flushes = << >>
    /\ dispatched = << >>
    /\ raised = {}
    /\ cancelled = "no"
    /\ interrupted_at = ""
    /\ cause = ""
    /\ exit_status = None
    /\ resets = << >>
    /\ quit_calls = 0
    /\ page = << >>
    /\ call = NoCall
    /\ except_body = "pass"
    /\ tree = None

\* analyzer.add_result(image_path, ground_truth, predicted, processing_time,
\* success, error_msg) on the next image; as in run_tests, a failed row has
\* no prediction and the rows come in the order of load_dataset, class by
\* class
AddResultCall ==
    /\ pc = "analyzer"
    /\ Len(results) < MaxResults
    /\ \E ground_truth \in MES_CLASSES, predicted \in Predictions,
          processing_time \in TrialTimes, success \in BOOLEAN :
         /\ ~success => predicted = None
         /\ results # << >> => results[Len(results)].ground_truth <= ground_truth
         /\ results' = AddResult(results, Len(results) + 1, ground_truth, predicted,
                                 processing_time, success,
                                 IF success THEN "" ELSE "Failed to process image")
    /\ UNCHANGED <<pc, args, images, idx, exc, failed_count, processed_count, driver,
                   analyzer, files, flushes, dispatched, raised, cancelled,
                   interrupted_at, cause, exit_status>>
    /\ UNCHANGED <<resets, quit_calls, page, call, except_body, tree>>

NextAnalyzer == AddResultCall

SpecAnalyzer == InitAnalyzer /\ [][NextAnalyzer]_vars

\* ------------------------------------------------------------------ properties

\* the rows of the analyzer that belong to the item at loop index k
RowsOf(k) == {i \in 1 .. Len(results) : results[i].image_path = images[k + 1].image_path}

\* the except clause has finished for every item in `raised`
HandlerDone == pc # "handler"

\* the statements of the RUNNING loop
LoopPcs == {"trial", "count", "flush", "handler", "update"}

\* Steps 1 and 2 failed: run_tests returned False before the loop
PreRunFailures == {"dataset_missing", "dataset_empty", "dataset_invalid",
                   "driver_failed", "navigate_failed"}

\* C1: an item whose processing raised an exception has only rows with
\* success = False and a non-empty error, and unless the user cancels, the
\* loop still dispatches every item: when reporting starts all were dispatched
C1_RaisingItemFailsAndLoopGoesOn ==
    /\ HandlerDone =>
         \A k \in raised : \A i \in RowsOf(k) :
            ~results[i].success /\ results[i].error # ""
    /\ (pc = "report" /\ cancelled = "no") => Len(dispatched) = Len(images)

\* C2: the analyzer holds at most one row per dispatched item, and never more
\* rows than items dispatched
C2_OneOutcomePerDispatchedItem ==
    /\ Len(results) <= Len(dispatched)
    /\ \A i, j \in 1 .. Len(results) :
         i # j => results[i].image_path # results[j].image_path

\* C3: a run cancelled while in the loop still goes through Step 5 on the rows
\* it has before it exits
C3_CancelledRunStillReports ==
    (pc = "exited" /\ interrupted_at \in LoopPcs) =>
        cause \in {"completed", "summary_failed"}

\* C4: a run that got through Steps 1-3, recorded at least one row and
\* finished Step 5 exits with status 0; sys.exit(1) happens only for a pre-run
\* failure or an error before any row was recorded
C4_CompletedRunExitsZero ==
    /\ (pc = "exited" /\ cause \in {"completed", "summary_failed"} /\ Len(results) >= 1)
          => exit_status = 0
    /\ (pc = "exited" /\ exit_status = 1)
          => (cause \in PreRunFailures \/ results = << >>)

\* C5: when run_tests has returned or raised into main, a driver that
\* setup_driver acquired has been quit
C5_SessionReleasedOnExit ==
    (pc = "exited" /\ exit_status \in {0, 1}) => driver # "live"

\* the intermediate save after the item at loop index k raised
FlushFailedAt(k) == \E i \in RowsOf(k) : results[i].error = "flush error"

\* C6: for --batch-size >= 1 every intermediate file is written right after
\* the k-th item, k a positive multiple of the batch size, and is tagged k;
\* and after every such k-th item that has a row there is one (unless the
\* write itself failed)
C6_FlushAtMultiplesOfBatchSize ==
    args.batch_size >= 1 =>
        /\ \A f \in 1 .. Len(flushes) :
             /\ flushes[f].tag = flushes[f].after + 1
             /\ flushes[f].tag > 0
             /\ flushes[f].tag % args.batch_size = 0
        /\ \A k \in 1 .. Len(images) :
             (k <= idx /\ k % args.batch_size = 0 /\ ~FlushFailedAt(k - 1)) =>
                 \E f \in 1 .. Len(flushes) : flushes[f].after = k - 1

\* C7: a run that fails in Step 1 or 2 (dataset missing, empty or invalid,
\* driver not started, page not opened) has exited with status 1 and has
\* dispatched no item, recorded no row and written no file
C7_PreRunFailureAbortsCleanly ==
    cause \in PreRunFailures =>
        /\ pc = "exited"
        /\ exit_status = 1
        /\ dispatched = << >>
        /\ results = << >>
        /\ files = {}
        /\ ~analyzer

C7_Witness ==
    /\ pc = "exited"
    /\ cause = "navigate_failed"
    /\ exit_status = 1
    /\ images # << >>

\* C8: once Step 5 is over without a write error, the four final files exist,
\* whatever rows the analyzer holds
C8_ReportingWritesFourArtifacts ==
    (pc = "cleanup" /\ exc # "report error") =>
        \A name \in FinalArtifacts : File(name, None) \in files

\* C9: a row without a prediction is a failed row with an error message
C9_UnparseableIsFailedOutcome ==
    \A i \in 1 .. Len(results) :
        results[i].predicted = None =>
            (~results[i].success /\ results[i].error # "")

\* the successful subset S, as indexes into results
SuccessfulIdx == {i \in 1 .. Len(results) :
                    results[i].success /\ results[i].predicted # None}

\* the ratio f equals n / d
IsRatio(f, n, d) == f.den > 0 /\ f.num * d = n * f.den

\* C10: with S non-empty, overall accuracy is |predicted = label in S| / |S|,
\* per-class accuracy of c is |label = c and predicted = c| / |label = c| over
\* S, or 0 when no row of S has label c; successful + failed = total = rows
C10_AccuracyMetrics ==
    LET m == CalculateAccuracyMetrics(results)
        S == SuccessfulIdx
    IN  S # {} =>
        /\ IsRatio(m.overall_accuracy,
                   Cardinality({i \in S : results[i].predicted = results[i].ground_truth}),
                   Cardinality(S))
        /\ \A c \in MES_CLASSES :
             LET Sc == {i \in S : results[i].ground_truth = c}
             IN  IF Sc = {}
                 THEN m.per_class[c].num = 0 /\ m.per_class[c].den > 0
                 ELSE IsRatio(m.per_class[c],
                              Cardinality({i \in Sc : results[i].predicted = c}),
                              Cardinality(Sc))
        /\ m.successful_tests = Cardinality(S)
        /\ m.successful_tests + m.failed_tests = m.total_tested
        /\ m.total_tested = Len(results)

\* the rows (label, predicted) = (1,1), (1,2), (2,2), all successful: overall
\* 2/3, class 1 1/2, class 2 1/1, classes 0 and 3 0
C10_Witness ==
    /\ Len(results) = 3
    /\ \A i \in 1 .. 3 : results[i].success
    /\ <<results[1].ground_truth, results[1].predicted>> = <<1, 1>>
    /\ <<results[2].ground_truth, results[2].predicted>> = <<1, 2>>
    /\ <<results[3].ground_truth, results[3].predicted>> = <<2, 2>>
    /\ LET m == CalculateAccuracyMetrics(results)
       IN  /\ m.overall_accuracy = Frac(2, 3)
           /\ m.per_class[1] = Frac(1, 2)
           /\ m.per_class[2] = Frac(1, 1)
           /\ m.per_class[0] = Zero
           /\ m.per_class[3] = Zero


\* C11 as stated: with no successful row the metrics give overall accuracy 0
\* and an accuracy of 0 for each class 0..3
C11_EmptySubsetReportsZeroPerClass ==
    LET m == CalculateAccuracyMetrics(results)
    IN  SuccessfulIdx = {} =>
        /\ m.overall_accuracy.num = 0 /\ m.overall_accuracy.den > 0
        /\ \A c \in MES_CLASSES :
             /\ c \in DOMAIN m.per_class
             /\ m.per_class[c].num = 0 /\ m.per_class[c].den > 0

\* C11 amended: with no successful row the metrics divide by nothing, give
\* overall accuracy 0, no successful test, every row failed, and hold no
\* per-class accuracy at all
C11_EmptySubsetReportsZeroOverall ==
    LET m == CalculateAccuracyMetrics(results)
    IN  SuccessfulIdx = {} =>
        /\ m.overall_accuracy.num = 0 /\ m.overall_accuracy.den > 0
        /\ DOMAIN m.per_class = {}
        /\ m.successful_tests = 0
        /\ m.failed_tests = Len(results)
        /\ m.total_tested = Len(results)

\* two rows, one failed and one successful without a prediction
C11_Witness ==
    /\ pc = "analyzer"
    /\ Len(results) = 2
    /\ ~results[1].success
    /\ results[2].success /\ results[2].predicted = None
    /\ CalculateAccuracyMetrics(results).overall_accuracy = Zero


\* ------------------------------------------ the timing statistics driven alone

ElapsedTimes == 0 .. MaxElapsed

\* analyzer.add_result with any processing time: a successful row with or
\* without a prediction, or a failed row (run_tests records 0.0 for an item
\* that raised)
AddTimedResult ==
    /\ pc = "analyzer"
    /\ Len(results) < MaxTimed
    /\ \E predicted \in {0, None}, processing_time \in ElapsedTimes, success \in BOOLEAN :
         /\ ~success => predicted = None
         /\ results' = AddResult(results, Len(results) + 1, 0, predicted,
                                 processing_time, success,
                                 IF success THEN "" ELSE "Failed to process image")
    /\ UNCHANGED <<pc, args, images, idx, exc, failed_count, processed_count, driver,
                   analyzer, files, flushes, dispatched, raised, cancelled,
                   interrupted_at, cause, exit_status>>
    /\ UNCHANGED <<resets, quit_calls, page, call, except_body, tree>>

NextTiming == AddTimedResult

SpecTiming == InitAnalyzer /\ [][NextTiming]_vars

\* the rows whose trial succeeded
SucceededIdx == {i \in 1 .. Len(results) : results[i].success}

\* the sum of the elapsed times of the rows in a set of indexes
RECURSIVE ElapsedOver(_)
ElapsedOver(s) ==
    IF s = {} THEN 0
    ELSE LET i == CHOOSE j \in s : TRUE
         IN  results[i].processing_time + ElapsedOver(s \ {i})

\* C12: total_time is the sum of the elapsed times of all rows; mean, min and
\* max are taken over the succeeded rows only and are all zero when there is
\* none; adding a failed row raises total_time by its elapsed time and leaves
\* mean, min and max as they were
C12_TimingStatistics ==
    LET t == CalculateTimingStatistics(results)
        S == SucceededIdx
    IN  /\ t.total_time = ElapsedOver(1 .. Len(results))
        /\ S = {} => t.mean_time = Zero /\ t.min_time = 0 /\ t.max_time = 0
        /\ S # {} =>
             /\ IsRatio(t.mean_time, ElapsedOver(S), Cardinality(S))
             /\ \E i \in S : t.min_time = results[i].processing_time
             /\ \E i \in S : t.max_time = results[i].processing_time
             /\ \A i \in S : t.min_time <= results[i].processing_time
             /\ \A i \in S : t.max_time >= results[i].processing_time
        /\ \A elapsed \in ElapsedTimes :
             LET u == CalculateTimingStatistics(
                          AddResult(results, Len(results) + 1, 0, None, elapsed, FALSE,
                                    "Failed to process image"))
             IN  /\ u.total_time = t.total_time + elapsed
                 /\ u.mean_time = t.mean_time
                 /\ u.min_time = t.min_time
                 /\ u.max_time = t.max_time

\* a failed row of 2 seconds after two successful rows of 1 and 2 seconds,
\* the second without a prediction
C12_Witness ==
    /\ pc = "analyzer"
    /\ Len(results) = 3
    /\ results[1].success /\ results[1].processing_time = 1
    /\ results[2].success /\ results[2].processing_time = 2
    /\ results[2].predicted = None
    /\ ~results[3].success /\ results[3].processing_time = 2
    /\ CalculateTimingStatistics(results).total_time = 5
    /\ CalculateTimingStatistics(results).mean_time = Frac(3, 2)


\* the number of reset_for_next_image() calls made after item k
ResetsAfter(k) == Cardinality({j \in 1 .. Len(resets) : resets[j] = k})

\* C18: when the trial of item k + 1 starts, reset_for_next_image() was called
\* exactly once since the trial of item k, whatever that trial did; it is
\* never called after the last item
C18_OneResetBetweenTrials ==
    /\ pc = "trial" /\ idx > 0 => ResetsAfter(idx - 1) = 1
    /\ images # << >> => ResetsAfter(Len(images) - 1) = 0


\* lst without its first s items
Dropped(lst, s) == [i \in 1 .. (IF Len(lst) > s THEN Len(lst) - s ELSE 0) |-> lst[i + s]]

\* the first m items of lst, all of them when it has fewer
Truncated(lst, m) == [i \in 1 .. (IF Len(lst) > m THEN m ELSE Len(lst)) |-> lst[i]]

\* C19: after validation the items to dispatch are the loaded list with its
\* first start_index items dropped, then truncated to its first max_images
\* items (none when max_images is 0); without --max-images, the loaded list
\* minus its first start_index items
C19_SliceFromThenTruncate ==
    [][pc = "validate" /\ pc' = "setup_driver" =>
         images' = IF args.max_images = None
                   THEN Dropped(images, args.start_index)
                   ELSE Truncated(Dropped(images, args.start_index), args.max_images)]_vars


\* ------------------------------------------------ the loader driven alone:
\* load_dataset reads the file system class by class; `tree` holds what it
\* found for the class it looked at last

\* possible_names for one class: f"MES {c}", f"MES{c}", str(c), by position
PossibleNames == 1 .. 3

\* what base_dir / name is
PathKinds == {"absent", "file", "dir"}

\* the entries a class directory may hold: an image file in a supported
\* extension, a file whose extension differs from it only by case, and a
\* subdirectory with an image's name
DirEntries == {[is_file |-> TRUE, suffix |-> ".jpg"],
               [is_file |-> TRUE, suffix |-> ".Jpg"],
               [is_file |-> FALSE, suffix |-> ".jpg"]}

\* the listings of a directory of at most MaxEntries entries, in iterdir order
Listings == UNION {[1 .. n -> DirEntries] : n \in 0 .. MaxEntries}

\* lines 54-59: the first name that exists, 0 if none does
ClassDir(names) ==
    IF \E n \in PossibleNames : names[n] # "absent"
    THEN CHOOSE n \in PossibleNames :
             /\ names[n] # "absent"
             /\ \A k \in PossibleNames : k < n => names[k] = "absent"
    ELSE 0

\* lines 66-68: the entries of the listing that are kept
KeptEntries(entries) ==
    SelectSeq(entries, LAMBDA e : e.is_file /\ e.suffix \in SUPPORTED_EXTENSIONS)

\* lines 75-81, get_class_distribution
ClassDistribution(imgs) ==
    [c \in MES_CLASSES |-> Cardinality({i \in 1 .. Len(imgs) : imgs[i].ground_truth = c})]

InitLoader ==
    /\ pc = "load_dataset"
    /\ tree \in {[exists |-> e, class_label |-> None,
                  names |-> [n \in PossibleNames |-> "absent"], entries |-> << >>] :
                 e \in BOOLEAN}
    /\ args = [batch_size |-> 1, start_index |-> 0, max_images |-> None]
    /\ images = << >>
    /\ idx = 0
    /\ exc = ""
    /\ results = << >>
    /\ failed_count = 0
    /\ processed_count = 0
    /\ driver = "none"
    /\ analyzer = FALSE
    /\ files = {}
    /\ flushes = << >>
    /\ dispatched = << >>
    /\ raised = {}
    /\ cancelled = "no"
    /\ interrupted_at = ""
    /\ cause = ""
    /\ exit_status = None
    /\ resets = << >>
    /\ quit_calls = 0
    /\ page = << >>
    /\ call = NoCall
    /\ except_body = "pass"

\* lines 44-47: ValueError when base_dir does not exist
LoadDatasetEnter ==
    /\ pc = "load_dataset"
    /\ IF tree.exists
       THEN /\ images' = << >>
            /\ pc' = "class_loop"
            /\ UNCHANGED exc
       ELSE /\ exc' = "ValueError"
            /\ pc' = "load_raised"
            /\ UNCHANGED images
    /\ UNCHANGED <<args, idx, results, failed_count, processed_count, driver, analyzer,
                   files, flushes, dispatched, raised, cancelled, interrupted_at, cause,
                   exit_status, resets, quit_calls, page, call, except_body, tree>>

\* lines 50-68, one iteration of `for class_label in [0, 1, 2, 3]`: the names
\* are tried in order with exists(), and iterdir() on the first that exists
\* raises NotADirectoryError when it is not a directory
LoadClass ==
    /\ pc = "class_loop"
    /\ tree.class_label < 3
    /\ \E names \in [PossibleNames -> PathKinds] :
       \E entries \in IF ClassDir(names) # 0 /\ names[ClassDir(names)] = "dir"
                      THEN Listings ELSE {<< >>} :
         LET class_label == tree.class_label + 1
             class_dir == ClassDir(names)
         IN  /\ tree' = [exists |-> TRUE, class_label |-> class_label,
                         names |-> names, entries |-> entries]
             /\ IF class_dir = 0
                THEN UNCHANGED <<images, exc, pc>>
                ELSE IF names[class_dir] = "dir"
                THEN /\ images' = images \o ClassImages(class_label,
                                                        Len(KeptEntries(entries)),
                                                        Len(images) + 1)
                     /\ UNCHANGED <<exc, pc>>
                ELSE /\ exc' = "NotADirectoryError"
                     /\ pc' = "load_raised"
                     /\ UNCHANGED images
    /\ UNCHANGED <<args, idx, results, failed_count, processed_count, driver, analyzer,
                   files, flushes, dispatched, raised, cancelled, interrupted_at, cause,
                   exit_status, resets, quit_calls, page, call, except_body>>

\* lines 70-73: the list is returned after the last class
LoadReturn ==
    /\ pc = "class_loop"
    /\ tree.class_label = 3
    /\ pc' = "loaded"
    /\ UNCHANGED <<args, images, idx, exc, results, failed_count, processed_count, driver,
                   analyzer, files, flushes, dispatched, raised, cancelled,
                   interrupted_at, cause, exit_status, resets, quit_calls, page, call,
                   except_body, tree>>

NextLoader ==
    \/ LoadDatasetEnter
    \/ LoadClass
    \/ LoadReturn

SpecLoader == InitLoader /\ [][NextLoader]_vars

\* the items of class c in the list
ItemsOf(c) == {i \in 1 .. Len(images) : images[i].ground_truth = c}

\* the regular files with an allowed extension in a listing
AllowedFiles(entries) ==
    {i \in 1 .. Len(entries) :
        entries[i].is_file /\ entries[i].suffix \in SUPPORTED_EXTENSIONS}

\* C16: load raises only when the root directory does not exist; for the
\* class it looked at last it holds one item per regular file with an allowed
\* extension in the first existing one of the class's three names, none when
\* no name exists; the class distribution sums to the number of items
C16_LoadReturnsOneItemPerImageFile ==
    /\ pc = "load_raised" => ~tree.exists
    /\ (pc \in {"class_loop", "loaded"} /\ tree.class_label # None) =>
         Cardinality(ItemsOf(tree.class_label)) =
             IF ClassDir(tree.names) = 0 THEN 0
             ELSE Cardinality(AllowedFiles(tree.entries))
    /\ LET d == ClassDistribution(images)
       IN  d[0] + d[1] + d[2] + d[3] = Len(images)


\* ------------------------------------------------ the tester driven alone:
\* each method call reads the page as the webapp shows it at that moment;
\* `page` holds the phrases the last call saw, `call` its inputs and return

\* the numbers a phrase may show: two classes and a number outside [0-3]
PageNumbers == {1, 2, 7}

\* the phrases: "card" 'ColonoScan MES Score: n', "sidebar" 'Prediction: MES n',
\* "mes_score" 'MES Score: n', "score" 'Score: n', "header" 'Analysis Results'
Phrases ==
    {[kind |-> k, n |-> n] : k \in {"card", "sidebar", "mes_score", "score"},
                             n \in PageNumbers}
    \cup {[kind |-> "header", n |-> None]}

\* the pages: at most MaxPhrases phrases, each an element of its own, in
\* document order
Pages == UNION {[1 .. n -> Phrases] : n \in 0 .. MaxPhrases}

\* the pages a poll may see: at most MaxPollPhrases phrases; a poll looks
\* for markers and reads no number, so one number stands for all
PollPages ==
    UNION {[1 .. n -> {p \in Phrases : p.n \in {1, None}}] : n \in 0 .. MaxPollPhrases}

\* find_elements(By.XPATH, "//*[contains(text(), marker)]"): the elements
\* whose text holds the marker
FindElements(pg, marker) ==
    LET kinds == CASE marker = "ColonoScan MES Score:" -> {"card"}
                   [] marker = "ColonoScan MES Score" -> {"card"}
                   [] marker = "Analysis Results" -> {"header"}
                   [] marker = "Prediction: MES" -> {"sidebar"}
    IN  SelectSeq(pg, LAMBDA e : e.kind \in kinds)

\* the kinds of phrase in which the literal part of a pattern occurs with the
\* number right after it ('MES' in 'MES Score: n' is followed by 'S')
PatternKinds(pattern) ==
    CASE pattern = "Score:\\s*([0-3])" -> {"card", "mes_score", "score"}
      [] pattern = "MES\\s*([0-3])" -> {"sidebar"}
      [] pattern = "ColonoScan MES Score:\\s*([0-3])" -> {"card"}
      [] pattern = "Prediction: MES\\s*([0-3])" -> {"sidebar"}
      [] pattern = "MES Score:\\s*([0-3])" -> {"card", "mes_score"}
      [] pattern = "MES[:\\s]*([0-3])" -> {"sidebar"}
      [] pattern = "Score[:\\s]*([0-3])" -> {"card", "mes_score", "score"}

\* int(re.search(pattern, text).group(1)) on the text of a sequence of
\* phrases: the number of the leftmost phrase the pattern matches in, None
\* when re.search returns None; [0-3] matches no other number
ReSearch(pattern, text) ==
    LET hits == {i \in 1 .. Len(text) :
                    text[i].kind \in PatternKinds(pattern) /\ text[i].n \in 0 .. 3}
    IN  IF hits = {} THEN None
        ELSE text[CHOOSE i \in hits : \A j \in hits : i <= j].n

\* the first element of a list whose text the pattern matches, None if none
RECURSIVE FirstElementMatch(_, _)
FirstElementMatch(elements, pattern) ==
    IF elements = << >> THEN None
    ELSE IF ReSearch(pattern, <<Head(elements)>>) # None
    THEN ReSearch(pattern, <<Head(elements)>>)
    ELSE FirstElementMatch(Tail(elements), pattern)

\* mes_patterns, lines 201-207
mes_patterns ==
    <<"ColonoScan MES Score:\\s*([0-3])", "Prediction: MES\\s*([0-3])",
      "MES Score:\\s*([0-3])", "MES[:\\s]*([0-3])", "Score[:\\s]*([0-3])">>

\* lines 209-214: the first pattern that matches the body text
RECURSIVE FirstPatternMatch(_, _)
FirstPatternMatch(patterns, page_text) ==
    IF patterns = << >> THEN None
    ELSE IF ReSearch(Head(patterns), page_text) # None
    THEN ReSearch(Head(patterns), page_text)
    ELSE FirstPatternMatch(Tail(patterns), page_text)

\* the two ways lines 198-200, which do not parse, can be completed: "pass",
\* the except clause is empty and the body scan follows the sidebar
\* strategy; "handler", the body scan is the body of the except clause
ExceptBodies == {"pass", "handler"}

\* ColonoMindTester.extract_mes_classification on a page. `import re` is a
\* statement of the score-card loop (line 178): the name is bound only once
\* that loop ran an iteration, and re.search raises UnboundLocalError
\* otherwise, which the outer except clause turns into None.
\* find_elements raises no NoSuchElementException.
ExtractMesClassification(pg, body) ==
    LET score_elements == FindElements(pg, "ColonoScan MES Score:")
        re_bound == score_elements # << >>
        card == FirstElementMatch(score_elements, "Score:\\s*([0-3])")
        sidebar_elements == FindElements(pg, "Prediction: MES")
        sidebar == FirstElementMatch(sidebar_elements, "MES\\s*([0-3])")
    IN  IF card # None THEN card
        ELSE IF sidebar_elements # << >> /\ ~re_bound THEN None
        ELSE IF sidebar # None THEN sidebar
        ELSE IF body = "handler" THEN None
        ELSE IF ~re_bound THEN None
        ELSE FirstPatternMatch(mes_patterns, pg)

\* what one iteration of the polling loop finds, lines 129-149: the three
\* queries in order, the query numbered failing raises (0: none does) and
\* the except clause swallows it
PollPage(pg, failing) ==
    IF failing = 1 THEN "error"
    ELSE IF FindElements(pg, "ColonoScan MES Score") # << >> THEN "found"
    ELSE IF failing = 2 THEN "error"
    ELSE IF FindElements(pg, "Analysis Results") # << >> THEN "found"
    ELSE IF failing = 3 THEN "error"
    ELSE IF FindElements(pg, "Prediction: MES") # << >> THEN "found"
    ELSE "empty"

\* upload_image that returns True whenever a file input was found
UploadImageLenient(file_inputs, send_keys, start_button, click) ==
    file_inputs = "found"

\* ColonoMindTester.upload_image: what find_elements gives ("found", "none",
\* "error"), send_keys ("ok", "error"), the wait for the button ("clickable",
\* "timeout", "error") and the click ("ok", "error"); every exception but the
\* wait's TimeoutException reaches the outer except clause
UploadImage(file_inputs, send_keys, start_button, click) ==
    IF file_inputs # "found" THEN FALSE
    ELSE IF send_keys = "error" THEN FALSE
    ELSE IF start_button = "timeout" THEN TRUE
    ELSE IF start_button = "error" THEN FALSE
    ELSE click = "ok"

InitTester ==
    /\ pc = "tester"
    /\ except_body \in ExceptBodies
    /\ args = [batch_size |-> 1, start_index |-> 0, max_images |-> None]
    /\ images = << >>
    /\ idx = 0
    /\ exc = ""
    /\ results = << >>
    /\ failed_count = 0
    /\ processed_count = 0
    /\ driver = "none"
    /\ analyzer = FALSE
    /\ files = {}
    /\ flushes = << >>
    /\ dispatched = << >>
    /\ raised = {}
    /\ cancelled = "no"
    /\ interrupted_at = ""
    /\ cause = ""
    /\ exit_status = None
    /\ resets = << >>
    /\ quit_calls = 0
    /\ page = << >>
    /\ call = NoCall
    /\ tree = None

\* a wait_for_processing call is inside its loop
Waiting == call.method = "wait_for_processing" /\ ~call.done

\* tester.setup_driver(): webdriver.Chrome gives a session or raises
SetupDriverCall ==
    /\ pc = "tester"
    /\ driver = "none"
    /\ \E ok \in BOOLEAN :
         /\ driver' = IF ok THEN "live" ELSE driver
         /\ call' = [method |-> "setup_driver", ok |-> ok]
    /\ UNCHANGED <<pc, args, images, idx, exc, results, failed_count, processed_count,
                   analyzer, files, flushes, dispatched, raised, cancelled,
                   interrupted_at, cause, exit_status, resets, quit_calls, page,
                   except_body, tree>>

\* tester.upload_image(image_path)
UploadImageCall ==
    /\ pc = "tester"
    /\ driver = "live"
    /\ ~Waiting
    /\ \E file_inputs \in {"found", "none", "error"}, send_keys \in {"ok", "error"},
          start_button \in {"clickable", "timeout", "error"}, click \in {"ok", "error"} :
         call' = [method |-> "upload_image", file_inputs |-> file_inputs,
                  send_keys |-> send_keys, start_button |-> start_button,
                  click |-> click,
                  ret |-> UploadImage(file_inputs, send_keys, start_button, click)]
    /\ UNCHANGED <<pc, args, images, idx, exc, results, failed_count, processed_count,
                   driver, analyzer, files, flushes, dispatched, raised, cancelled,
                   interrupted_at, cause, exit_status, resets, quit_calls, page,
                   except_body, tree>>

\* tester.wait_for_processing(timeout) up to its loop: start_time is taken
WaitForProcessingCall ==
    /\ pc = "tester"
    /\ driver = "live"
    /\ ~Waiting
    /\ \E timeout \in 0 .. MaxTimeout :
         call' = [method |-> "wait_for_processing", timeout |-> timeout, elapsed |-> 0,
                  last |-> "none", done |-> FALSE, ret |-> FALSE]
    /\ UNCHANGED <<pc, args, images, idx, exc, results, failed_count, processed_count,
                   driver, analyzer, files, flushes, dispatched, raised, cancelled,
                   interrupted_at, cause, exit_status, resets, quit_calls, page,
                   except_body, tree>>

\* a sleep that returns at once
SleepSkipped(elapsed) == elapsed

\* time.sleep(1): the clock after the sleep
Sleep(elapsed) == elapsed + 1

\* lines 128-154: the loop test, then either one iteration on the page as it
\* is now (a marker returns True, anything else sleeps for a second), or the
\* return of False after the loop
WaitPoll ==
    /\ pc = "tester"
    /\ Waiting
    /\ IF call.elapsed < call.timeout
       THEN \E pg \in PollPages, failing \in 0 .. 3 :
              LET found == PollPage(pg, failing) IN
              /\ page' = pg
              /\ call' = [call EXCEPT !.last = found,
                                      !.done = (found = "found"),
                                      !.ret = (found = "found"),
                                      !.elapsed = IF found = "found" THEN @ ELSE Sleep(@)]
       ELSE /\ call' = [call EXCEPT !.done = TRUE, !.ret = FALSE]
            /\ UNCHANGED page
    /\ UNCHANGED <<pc, args, images, idx, exc, results, failed_count, processed_count,
                   driver, analyzer, files, flushes, dispatched, raised, cancelled,
                   interrupted_at, cause, exit_status, resets, quit_calls,
                   except_body, tree>>

\* tester.extract_mes_classification() on the page as it is now
ExtractCall ==
    /\ pc = "tester"
    /\ driver = "live"
    /\ ~Waiting
    /\ \E pg \in Pages :
         /\ page' = pg
         /\ call' = [method |-> "extract_mes_classification",
                     score |-> ExtractMesClassification(pg, except_body)]
    /\ UNCHANGED <<pc, args, images, idx, exc, results, failed_count, processed_count,
                   driver, analyzer, files, flushes, dispatched, raised, cancelled,
                   interrupted_at, cause, exit_status, resets, quit_calls,
                   except_body, tree>>

\* tester.cleanup(), in any session state
CleanupCall ==
    /\ pc = "tester"
    /\ ~Waiting
    /\ quit_calls < MaxQuits
    /\ driver' = Cleanup(driver)
    /\ quit_calls' = quit_calls + CleanupQuits(driver)
    /\ call' = [method |-> "cleanup", was |-> driver]
    /\ UNCHANGED <<pc, args, images, idx, exc, results, failed_count, processed_count,
                   analyzer, files, flushes, dispatched, raised, cancelled,
                   interrupted_at, cause, exit_status, resets, page, except_body, tree>>

\* the session, the upload and the wait
NextTester ==
    \/ SetupDriverCall
    \/ UploadImageCall
    \/ WaitForProcessingCall
    \/ WaitPoll
    \/ CleanupCall

SpecTester == InitTester /\ [][NextTester]_vars

\* the polling loop is not suspended for ever: its thread keeps running
SpecTesterLive == SpecTester /\ WF_vars(WaitPoll)

\* the extraction, on a session that was set up
NextExtract ==
    \/ SetupDriverCall
    \/ ExtractCall

SpecExtract == InitTester /\ [][NextExtract]_vars


\* the number of the first phrase of a kind that shows a class, None if none
NumberOf(pg, kind) ==
    LET hits == {i \in 1 .. Len(pg) : pg[i].kind = kind /\ pg[i].n \in MES_CLASSES}
    IN  IF hits = {} THEN None ELSE pg[CHOOSE i \in hits : \A j \in hits : i <= j].n

\* the phrasings from the most to the least specific
PhrasingPriority == <<"card", "sidebar", "mes_score", "score">>

\* the number of the first phrasing, in priority order, that the page shows
\* with a class
RECURSIVE PriorityScore(_, _)
PriorityScore(pg, kinds) ==
    IF kinds = << >> THEN None
    ELSE IF NumberOf(pg, Head(kinds)) # None THEN NumberOf(pg, Head(kinds))
    ELSE PriorityScore(pg, Tail(kinds))

\* C13: the extraction returns the number of the first pattern, in priority
\* order from the score card down to the bare 'Score: N', that matches the
\* page, so the score card wins over any other phrase; the result is a class
\* 0..3 or absent
C13_FirstMatchingPatternWins ==
    call.method = "extract_mes_classification" =>
        /\ call.score = PriorityScore(page, PhrasingPriority)
        /\ call.score \in MES_CLASSES \cup {None}

\* the wait found a marker on the page
MarkerOnPage == \E i \in 1 .. Len(page) : page[i].kind \in {"card", "header", "sidebar"}

\* C14: wait_for_processing always returns; it returns True exactly when a
\* poll found a marker, at that poll; False only once the timeout has elapsed,
\* and without a poll when the timeout is 0; a poll whose query raised leaves
\* the wait going while the timeout has not elapsed
C14_AwaitResultTerminates ==
    /\ [](call.method = "wait_for_processing" =>
            /\ call.ret <=> (call.done /\ call.last = "found")
            /\ call.last = "found" => (call.done /\ MarkerOnPage)
            /\ call.last = "empty" => ~MarkerOnPage
            /\ (call.done /\ ~call.ret) => call.elapsed >= call.timeout
            /\ (call.done /\ call.timeout = 0) => (~call.ret /\ call.last = "none")
            /\ (call.last = "error" /\ call.elapsed < call.timeout) => ~call.done)
    /\ (Waiting ~> (call.method = "wait_for_processing" /\ call.done))

\* a marker found by the second poll of a wait of two seconds
C14_Witness ==
    /\ call.method = "wait_for_processing"
    /\ call.timeout = 2 /\ call.elapsed = 1
    /\ call.done /\ call.ret
    /\ page = <<[kind |-> "header", n |-> None]>>

C17_StopIsIdempotent ==
    /\ quit_calls <= 1
    /\ call.method = "cleanup" /\ call.was = "none" => driver = "none" /\ quit_calls = 0
    /\ call.method = "cleanup" /\ call.was # "none" => driver = "quit"

\* C20: the extraction returns N for a page without score card whose sidebar
\* shows 'Prediction: MES N', and for a page that shows N only as
\* 'MES Score: N' or 'Score: N'; it returns absent only when no phrase on the
\* page shows a class
C20_ToleratesAnySubsetOfPhrasings ==
    call.method = "extract_mes_classification" =>
        LET has(kind) == \E i \in 1 .. Len(page) : page[i].kind = kind
        IN  /\ (~has("card") /\ NumberOf(page, "sidebar") # None) =>
                   call.score = NumberOf(page, "sidebar")
            /\ (~has("card") /\ ~has("sidebar") /\ NumberOf(page, "mes_score") # None) =>
                   call.score = NumberOf(page, "mes_score")
            /\ (~has("card") /\ ~has("sidebar") /\ ~has("mes_score")
                    /\ NumberOf(page, "score") # None) =>
                   call.score = NumberOf(page, "score")
            /\ call.score = None =>
                   \A kind \in {"card", "sidebar", "mes_score", "score"} :
                       NumberOf(page, kind) = None


\* the loop is between two iterations, or the run is past the loop
IterationBoundary == pc \in {"trial", "report", "cleanup", "exited"} /\ analyzer

\* C21: at every iteration boundary and at the end of a run that was not
\* interrupted, failed_count is at most processed_count and processed_count
\* is the number of rows in the analyzer, so the success rate of the final
\* summary, (processed_count - failed_count) / processed_count, is between
\* 0% and 100%
C21_CountsAgreeWithResults ==
    (IterationBoundary /\ cancelled = "no") =>
        /\ failed_count <= processed_count
        /\ processed_count = Len(results)
        /\ processed_count > 0 =>
             /\ (processed_count - failed_count) * 100 >= 0
             /\ (processed_count - failed_count) * 100 <= 100 * processed_count

====
